---------------------------- MODULE Spec2Model ----------------------------
(***************************************************************************)
(* Kana normalisation, search keys, station sort keys and the toast of     *)
(* common.js (src/common.js holds two versions of the file, the IIFE one   *)
(* and a later plain one; src/unnamed/part_000 holds the extended one).    *)
(*                                                                         *)
(* A JavaScript string is a sequence of UTF-16 code units (naturals), so   *)
(* that range tests, the 0x60 shift and code-unit comparison are the ones  *)
(* the code performs.  A JavaScript value is a record [t, s, n]: its type  *)
(* tag, its string (when a string) and its number (when a number).         *)
(***************************************************************************)
EXTENDS Integers, Sequences, FiniteSets, TLC

VARIABLES
    pc,         \* position of the page script that calls the helpers
    variant,    \* which version of the helper was called
    x,          \* argument of toHira / kataToHira / normalizeForSearch
    y,          \* x with one space character inserted
    out,        \* normalizeForSearch(x)
    outY,       \* normalizeForSearch(y)
    out2,       \* normalizeForSearch(out)
    hiraRegex,  \* toHira(x)
    hiraLoop,   \* kataToHira(x)
    recs,       \* the facility records handed to the helpers
    keys,       \* pickStationKey of each record
    walks,      \* pickWalkMinutes of each record
    hay,        \* buildHaystack of the first record
    body,       \* the elements appended to document.body, in order
    timers,     \* the pending setTimeout callbacks
    nextTimerId \* the id the next setTimeout returns

textVars == <<x, y, out, outY, out2, hiraRegex, hiraLoop>>
keyVars == <<recs, keys, walks, hay>>
toastVars == <<body, timers, nextTimerId>>
vars == <<pc, variant, textVars, keyVars, toastVars>>

----------------------------------------------------------------------------
(* Bounds of the model *)

MaxLen == 3
MaxKeyLen == 3
MaxWalkLen == 5
MaxHayLen == 2
MaxToasts == 4

----------------------------------------------------------------------------
(* Program constants *)

KataLo == 12449
KataHi == 12534
HiraShift == 96
IdeographicSpace == 12288
LongVowel == 12540

----------------------------------------------------------------------------
(* JavaScript values and strings *)

Undefined == [t |-> "undefined", s |-> <<>>, n |-> 0]
Null == [t |-> "null", s |-> <<>>, n |-> 0]
Str(s) == [t |-> "string", s |-> s, n |-> 0]
Num(n) == [t |-> "number", s |-> <<>>, n |-> n]

\* All strings over alphabet A of length at most k.
StringsUpTo(A, k) == UNION {[1..m -> A] : m \in 0..k}

\* String(n) for an integer n: decimal digits, with a leading "-".
RECURSIVE DecimalDigits(_)
DecimalDigits(n) ==
    IF n < 10 THEN <<48 + n>>
    ELSE DecimalDigits(n \div 10) \o <<48 + (n % 10)>>

NumberToString(n) ==
    IF n < 0 THEN <<45>> \o DecimalDigits(0 - n) ELSE DecimalDigits(n)

safeStr(v) ==
    IF v.t \in {"null", "undefined"} THEN <<>>
    ELSE IF v.t = "number" THEN NumberToString(v.n)
    ELSE v.s

\* The code units matched by \s and removed by String.prototype.trim.
WhiteSpace ==
    {9, 10, 11, 12, 13, 32, 160, 5760, 8232, 8233, 8239, 8287, 12288, 65279}
        \cup 8192..8202

IsWhiteSpace(c) == c \in WhiteSpace

RECURSIVE TrimStart(_)
TrimStart(s) ==
    IF s # <<>> /\ IsWhiteSpace(Head(s)) THEN TrimStart(Tail(s)) ELSE s

RECURSIVE TrimEnd(_)
TrimEnd(s) ==
    IF s # <<>> /\ IsWhiteSpace(s[Len(s)])
    THEN TrimEnd(SubSeq(s, 1, Len(s) - 1))
    ELSE s

trim(s) == TrimEnd(TrimStart(s))

\* s.replace(/[cls]/g, r): every code unit of the class replaced by the string r.
ReplaceEach(s, cls, r) ==
    LET RECURSIVE Go(_)
        Go(u) == IF u = <<>> THEN <<>>
                 ELSE (IF Head(u) \in cls THEN r ELSE <<Head(u)>>) \o Go(Tail(u))
    IN Go(s)

\* s.replace(/[cls]+/g, r): every maximal run of code units of the class
\* replaced by one r.
ReplaceRuns(s, cls, r) ==
    LET RECURSIVE Go(_, _)
        Go(u, inRun) ==
            IF u = <<>> THEN <<>>
            ELSE IF Head(u) \in cls
                 THEN (IF inRun THEN <<>> ELSE r) \o Go(Tail(u), TRUE)
                 ELSE <<Head(u)>> \o Go(Tail(u), FALSE)
    IN Go(s, FALSE)

\* Unicode properties used by the Final_Sigma rule of toLowerCase.
IsCased(c) == c \in 65..90 \/ c \in 97..122 \/ c \in {931, 962, 963}
IsCaseIgnorable(c) == c \in {39, 46, 58, 94, 96, 173, 12540, 65392}

FinalSigma(s, i) ==
    /\ \E j \in 1..(i - 1) :
          IsCased(s[j]) /\ \A k \in (j + 1)..(i - 1) : IsCaseIgnorable(s[k])
    /\ ~ \E j \in (i + 1)..Len(s) :
          IsCased(s[j]) /\ \A k \in (i + 1)..(j - 1) : IsCaseIgnorable(s[k])

\* String.prototype.toLowerCase on the code units the model uses: A-Z, and
\* capital sigma, whose lower case depends on its context.
toLowerCase(s) ==
    [i \in 1..Len(s) |->
        IF s[i] \in 65..90 THEN s[i] + 32
        ELSE IF s[i] = 931 THEN (IF FinalSigma(s, i) THEN 962 ELSE 963)
        ELSE s[i]]

----------------------------------------------------------------------------
(* Kana utilities *)

IsKatakana_wholeBlock(c) == c >= KataLo /\ c <= 12543

\* [\u30a1-\u30f6]
IsKatakana(c) == c >= KataLo /\ c <= KataHi

\* toHira: the regex has no u flag, so it works on code units.
toHira(v) ==
    LET s == safeStr(v)
    IN [i \in 1..Len(s) |-> IF IsKatakana(s[i]) THEN s[i] - HiraShift ELSE s[i]]

IsHighSurrogate(c) == c \in 55296..56319
IsLowSurrogate(c) == c \in 56320..57343

\* The length in code units of the code point that starts s: the string
\* iterator yields a surrogate pair as one element.
FirstCodePointLen(s) ==
    IF Len(s) >= 2 /\ IsHighSurrogate(s[1]) /\ IsLowSurrogate(s[2]) THEN 2 ELSE 1

kataToHira_openUpper(v) ==
    LET RECURSIVE Loop(_)
        Loop(u) ==
            IF u = <<>> THEN <<>>
            ELSE LET k == FirstCodePointLen(u)
                     ch == SubSeq(u, 1, k)
                     code == ch[1]
                 IN (IF code >= KataLo /\ code < KataHi
                     THEN <<code - HiraShift>>
                     ELSE ch) \o Loop(SubSeq(u, k + 1, Len(u)))
    IN Loop(safeStr(v))

\* kataToHira: for (const ch of s) walks code points; charCodeAt(0) is the
\* first code unit of each.
kataToHira(v) ==
    LET RECURSIVE Loop(_)
        Loop(u) ==
            IF u = <<>> THEN <<>>
            ELSE LET k == FirstCodePointLen(u)
                     ch == SubSeq(u, 1, k)
                     code == ch[1]
                 IN (IF code >= KataLo /\ code <= KataHi
                     THEN <<code - HiraShift>>
                     ELSE ch) \o Loop(SubSeq(u, k + 1, Len(u)))
    IN Loop(safeStr(v))

----------------------------------------------------------------------------
(* Search normalisation: the three versions of normalizeForSearch *)

\* common.js, IIFE version: spaces are collapsed to one and kept.
normalizeForSearch_iife(v) ==
    LET t0 == safeStr(v)
        t1 == ReplaceEach(t0, {IdeographicSpace}, <<32>>)
        t2 == ReplaceRuns(t1, WhiteSpace, <<32>>)
        t3 == toLowerCase(trim(t2))
    IN toHira(Str(t3))

normalizeForSearch_v2_keepSpaces(v) ==
    LET x0 == safeStr(v)
        x1 == ReplaceEach(x0, {IdeographicSpace}, <<32>>)
        x2 == trim(ReplaceRuns(x1, WhiteSpace, <<32>>))
        x3 == kataToHira(Str(x2))
    IN toLowerCase(x3)

\* common.js, second version: spaces are removed, lower-casing comes last.
normalizeForSearch_v2(v) ==
    LET x0 == safeStr(v)
        x1 == ReplaceEach(x0, {IdeographicSpace}, <<32>>)
        x2 == trim(ReplaceRuns(x1, WhiteSpace, <<32>>))
        x3 == kataToHira(Str(x2))
        x4 == ReplaceRuns(x3, WhiteSpace, <<>>)
    IN toLowerCase(x4)

\* [　\s]
SpaceClass == {IdeographicSpace} \cup WhiteSpace

\* [‐-‒–—―ーｰ]: the range U+2010..U+2012, then U+2013, U+2014, U+2015,
\* U+30FC and U+FF70.
DashClass == 8208..8210 \cup {8211, 8212, 8213, LongVowel, 65392}

\* [（）\(\)\[\]【】「」『』]
BracketClass ==
    {65288, 65289, 40, 41, 91, 93, 12304, 12305, 12300, 12301, 12302, 12303}

\* part_000, extended version: fold, lower-case, remove spaces, unify
\* dashes, remove brackets.
normalizeForSearch_ext(v) ==
    LET x0 == toLowerCase(toHira(Str(safeStr(v))))
        x1 == ReplaceRuns(x0, SpaceClass, <<>>)
        x2 == ReplaceEach(x1, DashClass, <<LongVowel>>)
    IN ReplaceEach(x2, BracketClass, <<>>)

normalizeForSearch(which, v) ==
    CASE which = "iife" -> normalizeForSearch_iife(v)
      [] which = "second" -> normalizeForSearch_v2(v)
      [] which = "ext" -> normalizeForSearch_ext(v)

----------------------------------------------------------------------------
(* Inputs of the text helpers *)

\* space, full-width space, A, capital sigma, katakana A, U+2010, U+2212,
\* U+FF70, "(" and the left corner bracket.
NormAlphabet == {32, 12288, 65, 931, 12450, 8208, 8722, 65392, 40, 12300}

\* space, full-width space, A, capital sigma, katakana A and a kanji.
SpaceAlphabet == {32, 12288, 65, 931, 12450, 26032}

\* U+30A0, the two ends of the folded range, U+30F7, the long-vowel mark,
\* hiragana A, A, and a surrogate pair's two halves.
KanaAlphabet == {12448, 12449, 12534, 12535, 12540, 12354, 65, 55357, 56832}

TextValues(A) == {Undefined, Null} \cup {Str(s) : s \in StringsUpTo(A, MaxLen)}

\* s with the code unit c inserted after its first p code units.
InsertAt(s, p, c) == SubSeq(s, 1, p) \o <<c>> \o SubSeq(s, p + 1, Len(s))

\* Nothing computed yet.
NoResults ==
    /\ variant = "none"
    /\ out = <<>> /\ outY = <<>> /\ out2 = <<>>
    /\ hiraRegex = <<>> /\ hiraLoop = <<>>
    /\ keys = <<>> /\ walks = <<>> /\ hay = <<>>

\* A page with no toast shown and no timer armed.
FreshPage == body = <<>> /\ timers = {} /\ nextTimerId = 1

InitNorm ==
    /\ pc = "input"
    /\ x \in TextValues(NormAlphabet)
    /\ y = x
    /\ recs = <<>>
    /\ NoResults /\ FreshPage

InitSpace ==
    /\ pc = "input"
    /\ \E s \in StringsUpTo(SpaceAlphabet, MaxLen) :
          /\ x = Str(s)
          /\ \E p \in 0..Len(s), c \in {32, 12288} : y = Str(InsertAt(s, p, c))
    /\ recs = <<>>
    /\ NoResults /\ FreshPage

InitKana ==
    /\ pc = "input"
    /\ x \in TextValues(KanaAlphabet)
    /\ y = x
    /\ recs = <<>>
    /\ NoResults /\ FreshPage

----------------------------------------------------------------------------
(* The calls *)

Normalize(which) ==
    /\ pc = "input"
    /\ variant' = which
    /\ out' = normalizeForSearch(which, x)
    /\ outY' = normalizeForSearch(which, y)
    /\ pc' = "once"
    /\ UNCHANGED <<x, y, out2, hiraRegex, hiraLoop, keyVars, toastVars>>

NormalizeIIFE == Normalize("iife")
NormalizeSecond == Normalize("second")
NormalizeExt == Normalize("ext")

\* The result is normalised again (a stored key that is compared later).
Renormalize ==
    /\ pc = "once"
    /\ out2' = normalizeForSearch(variant, Str(out))
    /\ pc' = "twice"
    /\ UNCHANGED <<variant, x, y, out, outY, hiraRegex, hiraLoop, keyVars, toastVars>>

ApplyToHira ==
    /\ pc = "input"
    /\ hiraRegex' = toHira(x)
    /\ pc' = "regex"
    /\ UNCHANGED <<variant, x, y, out, outY, out2, hiraLoop, keyVars, toastVars>>

ApplyKataToHira ==
    /\ pc = "regex"
    /\ hiraLoop' = kataToHira(x)
    /\ pc' = "folded"
    /\ UNCHANGED <<variant, x, y, out, outY, out2, hiraRegex, keyVars, toastVars>>

NextNorm == NormalizeIIFE \/ NormalizeSecond \/ NormalizeExt \/ Renormalize
NextKana == ApplyToHira \/ ApplyKataToHira

SpecNorm == InitNorm /\ [][NextNorm]_vars
SpecSpace == InitSpace /\ [][NextNorm]_vars
SpecKana == InitKana /\ [][NextKana]_vars

----------------------------------------------------------------------------
(* Claims about the text helpers *)

\* C1: normalizeForSearch is idempotent in every version: normalising the
\* result of a normalisation returns it unchanged, for every input.
C1_Idempotent == pc = "twice" => out2 = out

\* C1 witness: the extended version changed its input and the second
\* normalisation kept the result.
C1_Witness ==
    /\ pc = "twice" /\ variant = "ext"
    /\ x.t = "string" /\ Len(x.s) = MaxLen
    /\ out # <<>> /\ out # x.s /\ out2 = out

\* The dash and long-vowel variants and the brackets C6 lists.
ClaimedDashes == 8208..8213 \cup {8722, 65392, 12540}
ClaimedBrackets == {65288, 65289, 40, 41, 12304, 12305, 12300, 12301, 12302, 12303}

\* C6: in the extended normalizeForSearch every dash variant U+2010..U+2015,
\* U+2212, U+FF70, U+30FC comes out as U+30FC and every listed bracket is
\* removed: the result holds no other dash variant and no bracket.
C6_DashesUnifiedBracketsRemoved ==
    (pc = "once" /\ variant = "ext") =>
        \A i \in 1..Len(out) :
            out[i] \notin (ClaimedDashes \ {12540}) \cup ClaimedBrackets

\* y is x with a space inserted between two code units that are not spaces.
InteriorInsertion ==
    \E p \in 1..(Len(x.s) - 1), c \in {32, 12288} :
        /\ y.s = InsertAt(x.s, p, c)
        /\ ~IsWhiteSpace(x.s[p]) /\ ~IsWhiteSpace(x.s[p + 1])

\* C4 as stated: in every version, inserting an ASCII or full-width space
\* anywhere in s does not change normalizeForSearch(s).
C4_SpacingInsensitive == pc = "once" => outY = out

\* C4 as amended: the second version is insensitive to inserted spaces; the
\* extended version is, for strings without capital sigma; the IIFE version
\* is exactly when the space is not put between two non-space characters.
C4_SpacingByVersion ==
    pc = "once" =>
        /\ variant = "second" => outY = out
        /\ (variant = "ext" /\ \A i \in 1..Len(x.s) : x.s[i] # 931) => outY = out
        /\ variant = "iife" => (outY = out <=> ~InteriorInsertion)

\* C4 witness: the second version drops a space inserted between two
\* characters that it keeps.
C4_Witness ==
    /\ pc = "once" /\ variant = "second"
    /\ InteriorInsertion /\ Len(out) = MaxLen /\ outY = out

\* C8: toHira and kataToHira agree, keep the length, lower exactly the code
\* units U+30A1..U+30F6 by 0x60 and leave every other code unit, surrogate
\* halves included, in place; null and undefined give the empty string.
C8_FoldExact ==
    pc = "folded" =>
        LET s == IF x.t = "string" THEN x.s ELSE <<>>
        IN /\ hiraRegex = hiraLoop
           /\ Len(hiraRegex) = Len(s)
           /\ \A i \in 1..Len(s) :
                 hiraRegex[i] = IF s[i] \in 12449..12534 THEN s[i] - 96 ELSE s[i]

\* C8 witness: a string with a surrogate pair and the last katakana of the
\* range has been folded by both functions.
C8_Witness ==
    /\ pc = "folded" /\ x.t = "string" /\ Len(x.s) = 3
    /\ \E i \in 1..2 : x.s[i] = 55357 /\ x.s[i + 1] = 56832
    /\ \E j \in 1..3 : x.s[j] = 12534 /\ hiraLoop[j] = 12438

----------------------------------------------------------------------------
(* Numbers: toNumOrNull, toIntOrNull *)

\* A JavaScript number, as far as the helpers look at it: NaN, an infinity,
\* or a finite number with its sign and the integer part of its magnitude.
NaN == [cls |-> "nan", neg |-> FALSE, ip |-> 0]
Infinite(neg) == [cls |-> "inf", neg |-> neg, ip |-> 0]
Finite(neg, ip) == [cls |-> "fin", neg |-> neg, ip |-> ip]
NoNumber == [cls |-> "null", neg |-> FALSE, ip |-> 0]

IsDigit(c) == c \in 48..57

RECURSIVE DigitsValue(_)
DigitsValue(d) ==
    IF d = <<>> THEN 0
    ELSE 10 * DigitsValue(SubSeq(d, 1, Len(d) - 1)) + (d[Len(d)] - 48)

\* The longest prefix of digits of s.
RECURSIVE LeadingDigits(_)
LeadingDigits(s) ==
    IF s # <<>> /\ IsDigit(Head(s)) THEN <<Head(s)>> \o LeadingDigits(Tail(s))
    ELSE <<>>

\* Number(s) for a string: white space is stripped, the empty string is 0,
\* a signed decimal literal (digits, optional fraction) or Infinity is its
\* value, anything else is NaN.  Exponents and radix prefixes do not occur
\* in the inputs of the model.
StringToNumber(s) ==
    LET u == trim(s)
        signed == u # <<>> /\ Head(u) \in {43, 45}
        neg == u # <<>> /\ Head(u) = 45
        b == IF signed THEN Tail(u) ELSE u
        int == LeadingDigits(b)
        rest == SubSeq(b, Len(int) + 1, Len(b))
        frac == IF rest # <<>> /\ Head(rest) = 46 THEN Tail(rest) ELSE <<>>
    IN IF u = <<>> THEN Finite(FALSE, 0)
       ELSE IF b = <<73, 110, 102, 105, 110, 105, 116, 121>> THEN Infinite(neg)
       ELSE IF /\ rest = <<>> \/ Head(rest) = 46
               /\ LeadingDigits(frac) = frac
               /\ Len(int) + Len(frac) > 0
            THEN Finite(neg, DigitsValue(int))
       ELSE NaN

isNullLike(v) ==
    LET u == trim(safeStr(v))
    IN u = <<>> \/ u = <<45>> \/ toLowerCase(u) = <<110, 117, 108, 108>>

toNumOrNull(v) ==
    IF v.t \in {"null", "undefined"} THEN NoNumber
    ELSE LET s == trim(safeStr(v))
         IN IF isNullLike(Str(s)) THEN NoNumber
            ELSE LET n == StringToNumber(s)
                 IN IF n.cls = "fin" THEN n ELSE NoNumber

\* Math.trunc keeps a finite number's sign and integer part.
toIntOrNull(v) ==
    LET n == toNumOrNull(v)
    IN IF n.cls = "null" THEN n ELSE Finite(n.neg, n.ip)

----------------------------------------------------------------------------
(* Station sort helpers *)

Eki == 39365
Tilde == 126
WalkMissing == 9999

Facility(kana, station, walk) ==
    [name |-> Undefined, name_kana |-> Undefined, nearest_station |-> station,
     station_kana |-> kana, ward |-> Undefined, address |-> Undefined,
     walk_minutes |-> walk]

stripStationSuffix_keep(v) == trim(safeStr(v))

\* replace(/駅$/g, ""): a match only at the end of the string, so one 駅.
stripStationSuffix(v) ==
    LET s == safeStr(v)
    IN trim(IF s # <<>> /\ s[Len(s)] = Eki THEN SubSeq(s, 1, Len(s) - 1) ELSE s)

pickStationKey_iife(f) ==
    LET sk == trim(safeStr(f.station_kana))
        st == trim(safeStr(f.nearest_station))
        base == IF sk # <<>> THEN sk ELSE stripStationSuffix(Str(st))
    IN normalizeForSearch_iife(Str(base))

\* Second version: every 駅 is removed, and '~~~~' stands for no station.
pickStationKey_v2(f) ==
    LET sk == trim(safeStr(f.station_kana))
        ns == trim(ReplaceEach(safeStr(f.nearest_station), {Eki}, <<>>))
    IN IF sk # <<>> THEN normalizeForSearch_v2(Str(sk))
       ELSE IF ns # <<>> THEN normalizeForSearch_v2(Str(ns))
       ELSE <<Tilde, Tilde, Tilde, Tilde>>

pickStationKey(which, f) ==
    CASE which = "iife" -> pickStationKey_iife(f)
      [] which = "second" -> pickStationKey_v2(f)

\* The integer pickWalkMinutes returns.
pickWalkMinutes(f) ==
    LET w == toIntOrNull(f.walk_minutes)
    IN IF w.cls = "null" THEN WalkMissing
       ELSE IF w.neg THEN 0 - w.ip ELSE w.ip

\* The sort keys of every record are taken: the station key of the named
\* version, and the walk minutes.
PickKeys(which) ==
    /\ pc = "input"
    /\ recs # <<>>
    /\ variant' = which
    /\ keys' = [i \in 1..Len(recs) |-> pickStationKey(which, recs[i])]
    /\ walks' = [i \in 1..Len(recs) |-> pickWalkMinutes(recs[i])]
    /\ pc' = "picked"
    /\ UNCHANGED <<textVars, recs, hay, toastVars>>

PickKeysIIFE == PickKeys("iife")
PickKeysSecond == PickKeys("second")

NextKey == PickKeysIIFE \/ PickKeysSecond

----------------------------------------------------------------------------
(* Inputs of the station sort helpers *)

\* space, 駅 and katakana SHI.
KeyAlphabet == {32, Eki, 12471}

StationValues ==
    {Undefined, Null} \cup {Str(s) : s \in StringsUpTo(KeyAlphabet, MaxKeyLen)}

\* Absent, null, empty, or only spaces.
BlankValues == {Undefined, Null, Str(<<>>), Str(<<IdeographicSpace, 32>>)}

\* 1, 0, 9, "-", "." and space.
WalkAlphabet == {49, 48, 57, 45, 46, 32}

\* "null", "NULL", "Infinity", "abc".
WalkWords ==
    {<<110, 117, 108, 108>>, <<78, 85, 76, 76>>,
     <<73, 110, 102, 105, 110, 105, 116, 121>>, <<97, 98, 99>>}

WalkValues ==
    {Undefined, Null}
        \cup {Num(n) : n \in {0 - 3, 0, 7, 9999, 10000}}
        \cup {Str(s) : s \in StringsUpTo(WalkAlphabet, MaxWalkLen) \cup WalkWords}

\* The records of the end-to-end example of the specification.
Shibuya == <<12375, 12406, 12420>>
ShibuyaEki == <<28171, 35895, Eki>>
RecA == [Facility(Str(Shibuya), Undefined, Num(5))
            EXCEPT !.name = Str(<<65, 12499, 12523>>)]
RecB == [Facility(Undefined, Str(ShibuyaEki), Num(3))
            EXCEPT !.name = Str(<<66, 12499, 12523>>)]
RecC == [Facility(Undefined, Undefined, Undefined)
            EXCEPT !.name = Str(<<67, 12499, 12523>>)]

SortSamples ==
    {RecA, RecB, RecC}
        \cup {Facility(k, s, w) :
                k \in {Undefined, Str(Shibuya)},
                s \in {Undefined, Str(ShibuyaEki)},
                w \in {Undefined, Num(3), Num(5)}}

InitKey ==
    /\ pc = "input"
    /\ \E k \in StationValues, s \in StationValues, bk \in BlankValues,
          bs \in BlankValues :
          recs = <<Facility(k, s, Undefined), Facility(bk, bs, Undefined)>>
    /\ x = Undefined /\ y = Undefined
    /\ NoResults /\ FreshPage

InitWalk ==
    /\ pc = "input"
    /\ \E w \in WalkValues : recs = <<Facility(Undefined, Undefined, w)>>
    /\ x = Undefined /\ y = Undefined
    /\ NoResults /\ FreshPage

InitSort ==
    /\ pc = "input"
    /\ recs \in [1..3 -> SortSamples]
    /\ x = Undefined /\ y = Undefined
    /\ NoResults /\ FreshPage

SpecKey == InitKey /\ [][NextKey]_vars
SpecWalk == InitWalk /\ [][NextKey]_vars
SpecSort == InitSort /\ [][NextKey]_vars

----------------------------------------------------------------------------
(* Claims about the station sort helpers *)

\* a sorts before b in code-unit (lexicographic) order.
StrLess(a, b) ==
    \/ Len(a) < Len(b) /\ SubSeq(b, 1, Len(a)) = a
    \/ \E i \in 1..Len(a) :
          /\ i <= Len(b)
          /\ SubSeq(a, 1, i - 1) = SubSeq(b, 1, i - 1)
          /\ a[i] < b[i]

\* The record has a non-blank station_kana or nearest_station.
HasStation(f) ==
    trim(safeStr(f.station_kana)) # <<>> \/ trim(safeStr(f.nearest_station)) # <<>>

\* C2: the key of a record with no station identity compares greater than
\* the key of every record that has a station_kana or nearest_station, and
\* equals the key of every other record with no station identity.
C2_NoStationSortsLast ==
    (pc = "picked" /\ Len(recs) = 2 /\ ~HasStation(recs[2])) =>
        IF HasStation(recs[1]) THEN StrLess(keys[1], keys[2])
        ELSE keys[1] = keys[2]

\* The base C3 states: the trimmed station_kana when non-empty, otherwise
\* the trimmed nearest_station less one trailing 駅.
ClaimedBase(f) ==
    LET sk == trim(safeStr(f.station_kana))
        st == trim(safeStr(f.nearest_station))
    IN IF sk # <<>> THEN sk
       ELSE IF st # <<>> /\ st[Len(st)] = 39365 THEN SubSeq(st, 1, Len(st) - 1)
       ELSE st

\* C3: for a record with a station name, pickStationKey is
\* normalizeForSearch of the trimmed station_kana when non-empty and
\* otherwise of the trimmed nearest_station less exactly one trailing 駅; any
\* other 駅 stays in the key.
C3_KeyIsNormalizedBase ==
    (pc = "picked" /\ Len(recs) = 2 /\ trim(ClaimedBase(recs[1])) # <<>>) =>
        keys[1] = normalizeForSearch(variant, Str(ClaimedBase(recs[1])))

\* The walk time is missing in the sense of C5: absent, null, blank, "null",
\* "-" or no finite number.
WalkMissingInput(w) ==
    \/ w.t \in {"undefined", "null"}
    \/ /\ w.t = "string"
       /\ \/ trim(w.s) \in {<<>>, <<45>>}
          \/ toLowerCase(trim(w.s)) = <<110, 117, 108, 108>>
          \/ StringToNumber(w.s).cls # "fin"

\* C5: a record whose walk time is missing gets 9999, and no record whose
\* walk time parses gets more than that, so missing walk time sorts last.
C5_MissingWalkSortsLast ==
    (pc = "picked" /\ Len(recs) = 1) =>
        /\ WalkMissingInput(recs[1].walk_minutes) => walks[1] = 9999
        /\ walks[1] <= 9999

\* Record i sorts before record j: by station key, then by walk minutes,
\* then by position (the sort is stable).
SortsBefore(i, j) ==
    \/ StrLess(keys[i], keys[j])
    \/ keys[i] = keys[j] /\ walks[i] < walks[j]
    \/ keys[i] = keys[j] /\ walks[i] = walks[j] /\ i < j

----------------------------------------------------------------------------
(* Haystack search (IIFE version) *)

buildHaystack_raw(f) ==
    safeStr(f.name) \o <<32>> \o safeStr(f.name_kana) \o <<32>>
        \o safeStr(f.nearest_station) \o <<32>> \o safeStr(f.station_kana)
        \o <<32>> \o safeStr(f.ward) \o <<32>> \o safeStr(f.address)

\* The six fields joined by single spaces, normalised once.
buildHaystack(f) ==
    LET parts == <<safeStr(f.name), safeStr(f.name_kana),
                   safeStr(f.nearest_station), safeStr(f.station_kana),
                   safeStr(f.ward), safeStr(f.address)>>
        joined == parts[1] \o <<32>> \o parts[2] \o <<32>> \o parts[3] \o <<32>>
                      \o parts[4] \o <<32>> \o parts[5] \o <<32>> \o parts[6]
    IN normalizeForSearch_iife(Str(joined))

\* The haystack of the record is built after the query was normalised.
BuildHaystack ==
    /\ pc = "once"
    /\ variant = "iife"
    /\ recs # <<>>
    /\ hay' = buildHaystack(recs[1])
    /\ pc' = "built"
    /\ UNCHANGED <<variant, textVars, recs, keys, walks, toastVars>>

HayFields == {"name", "name_kana", "nearest_station", "station_kana", "ward", "address"}

\* space, A, katakana A, hiragana A.
HayAlphabet == {32, 65, 12450, 12354}

\* What the fields around the searched one hold.
HayFillers == {Undefined, Str(<<IdeographicSpace>>), Str(<<12354>>)}

InitHay ==
    /\ pc = "input"
    /\ \E fld \in HayFields, v \in StringsUpTo(HayAlphabet, MaxHayLen),
          w \in HayFillers :
          recs = <<[[k \in HayFields \cup {"walk_minutes"} |-> w]
                      EXCEPT ![fld] = Str(v)]>>
    /\ x \in {Null} \cup {Str(s) : s \in StringsUpTo(HayAlphabet, MaxHayLen)}
    /\ y = x
    /\ NoResults /\ FreshPage

NextHay == NormalizeIIFE \/ BuildHaystack

SpecHay == InitHay /\ [][NextHay]_vars

\* n occurs in h as a substring (String.prototype.includes).
Includes(h, n) ==
    \E i \in 0..(Len(h) - Len(n)) : SubSeq(h, i + 1, i + Len(n)) = n

\* C9: when the normalised query is a substring of the normalised value of
\* one of the six fields, it is a substring of the haystack, whatever kana
\* script the field and the query are spelled in.
C9_FieldHitIsHaystackHit ==
    pc = "built" =>
        \A fld \in HayFields :
            Includes(normalizeForSearch_iife(recs[1][fld]), out) => Includes(hay, out)

\* C9 witness: a field spelled in katakana is found by a query in hiragana.
C9_Witness ==
    /\ pc = "built"
    /\ x = Str(<<12354>>)
    /\ recs[1].station_kana = Str(<<65, 12450>>)
    /\ recs[1].name = Str(<<12354>>)
    /\ out = <<12354>> /\ Includes(hay, out)

----------------------------------------------------------------------------
(* The single-element toast (part_000) *)

ToastDefaultMs == 1600

\* What el.textContent holds after it is set to msg.
TextContentOf(msg) == safeStr(msg)

\* document.getElementById: the index in body of the first element with
\* that id, 0 when there is none.
getElementById(id) ==
    IF \E i \in 1..Len(body) : body[i].id = id
    THEN CHOOSE i \in 1..Len(body) :
            body[i].id = id /\ \A j \in 1..(i - 1) : body[j].id # id
    ELSE 0

NewToastElement == [id |-> "__toast", display |-> "none", textContent |-> <<>>, t |-> 0]

\* The timers left once the element's timer is cleared.
clearTimeout_forgotten(id) == timers

clearTimeout(id) == {tm \in timers : tm.id # id}

\* toast(msg, ms): the element is found or created, shows msg, its previous
\* timer is cleared and a new one is armed.
Toast(msg, ms) ==
    /\ pc = "page"
    /\ nextTimerId <= MaxToasts
    /\ LET found == getElementById("__toast")
           body1 == IF found = 0 THEN Append(body, NewToastElement) ELSE body
           i == IF found = 0 THEN Len(body1) ELSE found
           delay == IF ms.t = "undefined" THEN ToastDefaultMs ELSE ms.n
       IN /\ body' = [body1 EXCEPT ![i] =
                         [id |-> "__toast", display |-> "block",
                          textContent |-> TextContentOf(msg), t |-> nextTimerId]]
          /\ timers' = clearTimeout(body1[i].t)
                          \cup {[id |-> nextTimerId, el |-> i, ms |-> delay]}
    /\ nextTimerId' = nextTimerId + 1
    /\ UNCHANGED <<pc, variant, textVars, keyVars>>

\* A pending timer's callback runs: it hides the element it closed over.
TimerFire(tm) ==
    /\ pc = "page"
    /\ tm \in timers
    /\ body' = [body EXCEPT ![tm.el].display = "none"]
    /\ timers' = timers \ {tm}
    /\ UNCHANGED <<pc, variant, textVars, keyVars, nextTimerId>>

ToastMsgs == {Null, Str(<<65>>), Str(<<66>>), Str(<<12354>>)}
ToastDelays == {Undefined, Num(0), Num(3000)}

ToastCalled == \E msg \in ToastMsgs, ms \in ToastDelays : Toast(msg, ms)
TimerFires == \E tm \in timers : TimerFire(tm)

\* The page before the first toast: empty, or holding another element.
InitToast ==
    /\ pc = "page"
    /\ body \in {<<>>, <<[id |-> "main", display |-> "block", textContent |-> <<>>, t |-> 0]>>}
    /\ timers = {} /\ nextTimerId = 1
    /\ recs = <<>> /\ x = Undefined /\ y = Undefined
    /\ NoResults

NextToast == ToastCalled \/ TimerFires

SpecToast == InitToast /\ [][NextToast]_vars

\* The event loop runs every pending timer callback.
FairToast == SpecToast /\ WF_vars(TimerFires)

ToastElements == {i \in 1..Len(body) : body[i].id = "__toast"}
ToastVisible == \E i \in ToastElements : body[i].display = "block"

\* While the toast is visible, exactly the timer armed by the latest call
\* is pending, and it is the element's own.
LatestTimerPending ==
    \A i \in ToastElements :
        body[i].display = "block" =>
            /\ body[i].t = nextTimerId - 1
            /\ \E tm \in timers : tm.id = body[i].t /\ tm.el = i

\* A call of toast leaves the toast visible; its message changes only in a
\* call; and a visible toast is hidden only by the firing of the timer of
\* the latest call, after which no timer is pending.
ToastStep ==
    /\ nextTimerId' = nextTimerId + 1 => ToastVisible'
    /\ \A i \in ToastElements :
          /\ body'[i].textContent # body[i].textContent =>
                nextTimerId' = nextTimerId + 1
          /\ (body[i].display = "block" /\ body'[i].display = "none") =>
                /\ nextTimerId' = nextTimerId
                /\ \E tm \in timers :
                      timers = {tm} /\ tm.id = nextTimerId - 1 /\ tm.el = i
                /\ timers' = {}

\* C10: at most one #__toast element and at most one pending hide timer
\* exist; the toast stays visible with the latest message until the timer
\* of the latest call fires; and once the calls stop it ends up hidden.
C10_SingleToast ==
    /\ [](Cardinality(ToastElements) <= 1 /\ Cardinality(timers) <= 1 /\ LatestTimerPending)
    /\ [][ToastStep]_vars
    /\ <>[](~ToastVisible)

\* C10 witness: a second call replaced the message while the first toast was
\* still visible, and only its timer is pending.
C10_Witness ==
    /\ nextTimerId = 3
    /\ ToastVisible
    /\ \E i \in ToastElements : body[i].textContent = <<66>> /\ body[i].t = 2
    /\ timers = {[id |-> 2, el |-> 2, ms |-> ToastDefaultMs]}

Spec == FairToast

=============================================================================
